---- MODULE Spec2Model ----
(***************************************************************************)
(* A model of the two-stage ingestion pipeline of chess-openings-analytics *)
(*   src/etl/collector.py  export_games : remote export -> record store    *)
(*   src/etl/load.py       process_pgn  : record store -> relational rows  *)
(* Text that the code takes apart (Result, WhiteElo/BlackElo, Site,        *)
(* Opening) is a sequence of one-character strings; text the code only     *)
(* copies (usernames, ECO, termination, dates) is a TLA+ string.           *)
(***************************************************************************)
EXTENDS Integers, Sequences, FiniteSets, TLC

VARIABLES
    \* ---- Collector (collector.py) ----
    token,          \* os.getenv("LICHESS_API_TOKEN"): None, "" or a secret
    usernames,      \* the input list of export_games
    store,          \* lines of the file at out_path
    cpc,            \* position inside export_games
    u_idx,          \* index of the current username of the for loop
    stream,         \* lines the current export stream has delivered so far
    requests,       \* usernames for which a network request was made, this run
    delivered,      \* lines the streams delivered, this run, in order
    storeBefore,    \* lines of the file when this run was started
    runs,           \* number of runs of export_games started
    \* ---- Loader (load.py) ----
    players,        \* table players: sequence of rows in insertion order
    openings,       \* table openings
    games,          \* table games
    file,           \* the records of the file at pgn_path
    idx,            \* records read from handle so far
    lpc,            \* position inside process_pgn
    headers,        \* game.headers of the record being processed
    ply,            \* game.end().ply() of the record being processed
    opening_id,     \* locals of process_pgn
    white_rating,
    black_rating,
    white_id,
    black_id,
    game_ct,
    printed,        \* lines process_pgn has printed, this run
    loads,          \* number of runs of process_pgn started
    saved,          \* the tables as they were when this run was started
    upserted,       \* <<username, rating>> pairs upsert_player was called with
    reload,         \* this run loads the file the previous run loaded
    commitOnError,  \* whether get_conn's scope commits when an error propagates
    \* ---- pure functions applied on their own ----
    input,
    output

collectorVars == <<token, usernames, store, cpc, u_idx, stream, requests,
                   delivered, storeBefore, runs>>
tableVars == <<players, openings, games, upserted>>
localVars == <<headers, ply, opening_id, white_rating, black_rating,
               white_id, black_id, game_ct>>
loaderVars == <<players, openings, games, upserted, file, idx, lpc, headers,
                ply, opening_id, white_rating, black_rating, white_id,
                black_id, game_ct, printed, loads, saved, reload, commitOnError>>
pureVars == <<input, output>>
vars == <<collectorVars, loaderVars, pureVars>>

\* ------------------------------------------------------------------ bounds
MaxUsers == 2       \* longest input list
MaxStream == 2      \* most lines one export stream delivers
MaxRuns == 2        \* runs of export_games
MaxRecords == 2     \* most records in a record store
MaxLoads == 2       \* runs of process_pgn
MaxResultLen == 4   \* longest Result header enumerated character by character
MaxNameLen == 4     \* longest Opening header enumerated character by character

\* ------------------------------------------------------------ text helpers
SeqsUpTo(S, n) == UNION {[1..k -> S] : k \in 0..n}

IsPrefix(s, t) == Len(s) <= Len(t) /\ SubSeq(t, 1, Len(s)) = s

\* Python str.replace(old, new) for a non-empty old: every non-overlapping
\* occurrence, found left to right, is substituted.
RECURSIVE Replace(_, _, _)
Replace(s, old, new) ==
    IF Len(s) < Len(old) THEN s
    ELSE IF SubSeq(s, 1, Len(old)) = old
         THEN new \o Replace(SubSeq(s, Len(old) + 1, Len(s)), old, new)
         ELSE <<Head(s)>> \o Replace(Tail(s), old, new)

\* ================================================================ Collector
None == "<None>"
Tokens == {None, "", "secret"}
Users == {"alice", "bob"}
\* the n-th line of the export stream of a user
ExportLine(username, n) == <<username, n>>

\* variant: `if token is None` (an empty credential passes)
TokenMissingOnlyNone(t) == t = None
\* collector.py:24  `if not token`
TokenMissing(t) == t = None \/ t = ""

CollectorIdle ==
    /\ token = None /\ usernames = <<>> /\ store = <<>> /\ cpc = "idle"
    /\ u_idx = 0 /\ stream = 0 /\ requests = <<>> /\ delivered = <<>>
    /\ storeBefore = <<>> /\ runs = 0

\* collector.py:22-27  entry, credential check, client construction
export_games ==
    /\ cpc \in {"idle", "done", "config_error", "raised"}
    /\ runs < MaxRuns
    /\ runs' = runs + 1
    /\ \E t \in Tokens, us \in SeqsUpTo(Users, MaxUsers) :
          /\ token' = t
          /\ usernames' = us
    /\ storeBefore' = store
    /\ requests' = <<>>
    /\ delivered' = <<>>
    /\ u_idx' = 0
    /\ stream' = 0
    /\ cpc' = IF TokenMissing(token') THEN "config_error" ELSE "open"
    /\ UNCHANGED store
    /\ UNCHANGED <<loaderVars, pureVars>>

\* collector.py:29  out_path.open("w"): the file is truncated
open_out ==
    /\ cpc = "open"
    /\ store' = <<>>
    /\ u_idx' = 1
    /\ cpc' = "for"
    /\ UNCHANGED <<token, usernames, stream, requests, delivered, storeBefore, runs>>
    /\ UNCHANGED <<loaderVars, pureVars>>

\* collector.py:30-31  the for loop takes the next username
for_username ==
    /\ cpc = "for"
    /\ u_idx <= Len(usernames)
    /\ cpc' = "request"
    /\ UNCHANGED <<token, usernames, store, u_idx, stream, requests, delivered,
                   storeBefore, runs>>
    /\ UNCHANGED <<loaderVars, pureVars>>

\* collector.py:30,50  the list is exhausted: the file is closed, the function returns
for_exhausted ==
    /\ cpc = "for"
    /\ u_idx > Len(usernames)
    /\ cpc' = "done"
    /\ UNCHANGED <<token, usernames, store, u_idx, stream, requests, delivered,
                   storeBefore, runs>>
    /\ UNCHANGED <<loaderVars, pureVars>>

\* collector.py:33-42  export_by_user returns a stream, nothing consumed yet
request_returns ==
    /\ cpc = "request"
    /\ requests' = Append(requests, usernames[u_idx])
    /\ stream' = 0
    /\ cpc' = "stream"
    /\ UNCHANGED <<token, usernames, store, u_idx, delivered, storeBefore, runs>>
    /\ UNCHANGED <<loaderVars, pureVars>>

\* collector.py:43-45  export_by_user raises ResponseError: logged, continue
request_response_error ==
    /\ cpc = "request"
    /\ requests' = Append(requests, usernames[u_idx])
    /\ u_idx' = u_idx + 1
    /\ cpc' = "for"
    /\ UNCHANGED <<token, usernames, store, stream, delivered, storeBefore, runs>>
    /\ UNCHANGED <<loaderVars, pureVars>>

\* collector.py:33-43  export_by_user raises an error that is not a
\* ResponseError (a transport fault): no except clause matches
request_other_error ==
    /\ cpc = "request"
    /\ requests' = Append(requests, usernames[u_idx])
    /\ cpc' = "raised"
    /\ UNCHANGED <<token, usernames, store, u_idx, stream, delivered, storeBefore, runs>>
    /\ UNCHANGED <<loaderVars, pureVars>>

\* collector.py:47-48  the stream delivers one more line, which is written
stream_line ==
    /\ cpc = "stream"
    /\ stream < MaxStream
    /\ LET pgn_line == ExportLine(usernames[u_idx], stream + 1)
       IN  /\ store' = Append(store, pgn_line)
           /\ delivered' = Append(delivered, pgn_line)
    /\ stream' = stream + 1
    /\ UNCHANGED <<token, usernames, cpc, u_idx, requests, storeBefore, runs>>
    /\ UNCHANGED <<loaderVars, pureVars>>

\* collector.py:47  the stream ends: next username
stream_end ==
    /\ cpc = "stream"
    /\ u_idx' = u_idx + 1
    /\ stream' = 0
    /\ cpc' = "for"
    /\ UNCHANGED <<token, usernames, store, requests, delivered, storeBefore, runs>>
    /\ UNCHANGED <<loaderVars, pureVars>>

\* collector.py:47  the stream raises while it is consumed: the for statement
\* is outside the try block, the error leaves export_games (the with
\* statement closes the file on the way out)
stream_error ==
    /\ cpc = "stream"
    /\ stream' = 0
    /\ cpc' = "raised"
    /\ UNCHANGED <<token, usernames, store, u_idx, requests, delivered, storeBefore, runs>>
    /\ UNCHANGED <<loaderVars, pureVars>>

\* =================================================================== Loader
\* the literals of load.py:87
R_1_0 == <<"1", "-", "0">>
R_0_1 == <<"0", "-", "1">>
R_half == <<"1", "/", "2", "-", "1", "/", "2">>
S_white == <<"w", "h", "i", "t", "e">>
S_black == <<"b", "l", "a", "c", "k">>
S_draw == <<"d", "r", "a", "w">>
S_star == <<"*">>

\* headers.get(key, default)
Get(h, key, default) == IF key \in DOMAIN h THEN h[key] ELSE default

\* load.py:87  the chain of three str.replace calls
Winner(result) ==
    Replace(Replace(Replace(result, R_1_0, S_white), R_0_1, S_black), R_half, S_draw)

\* ---- int(): optional blanks around, optional sign, then decimal digits
\* (digit grouping with "_" is not modelled: no header of the model has one)
Digits == {"0", "1", "2", "3", "4", "5", "6", "7", "8", "9"}
DigitValue == ("0" :> 0) @@ ("1" :> 1) @@ ("2" :> 2) @@ ("3" :> 3) @@ ("4" :> 4)
              @@ ("5" :> 5) @@ ("6" :> 6) @@ ("7" :> 7) @@ ("8" :> 8) @@ ("9" :> 9)

RECURSIVE LStrip(_)
LStrip(s) == IF s # <<>> /\ Head(s) = " " THEN LStrip(Tail(s)) ELSE s
RECURSIVE RStrip(_)
RStrip(s) ==
    IF s # <<>> /\ s[Len(s)] = " " THEN RStrip(SubSeq(s, 1, Len(s) - 1)) ELSE s
Strip(s) == RStrip(LStrip(s))

Unsigned(s) == IF s # <<>> /\ Head(s) \in {"+", "-"} THEN Tail(s) ELSE s

RECURSIVE DigitsValue(_)
DigitsValue(s) ==
    IF s = <<>> THEN 0
    ELSE 10 * DigitsValue(SubSeq(s, 1, Len(s) - 1)) + DigitValue[s[Len(s)]]

\* whether int(s) returns (otherwise it raises ValueError)
IsIntLiteral(s) ==
    LET body == Unsigned(Strip(s))
    IN  body # <<>> /\ \A k \in 1..Len(body) : body[k] \in Digits

IntOf(s) ==
    LET t == Strip(s)
    IN  IF t # <<>> /\ Head(t) = "-" THEN 0 - DigitsValue(Unsigned(t))
        ELSE DigitsValue(Unsigned(t))

\* load.py:74-75  int(headers.get(key, 0)): the default is the integer 0
EloParses(h, key) == key \notin DOMAIN h \/ IsIntLiteral(h[key])
EloValue(h, key) == IF key \in DOMAIN h THEN IntOf(h[key]) ELSE 0

\* variant: the Site header itself, not split
WholeSite(s) == s
\* load.py:81  headers.get("Site", "").split("/")[-1]
RECURSIVE LastSegment(_)
LastSegment(s) ==
    IF \E k \in 1..Len(s) : s[k] = "/" THEN LastSegment(Tail(s)) ELSE s

\* load.py:30  name.split(":")[0] if ":" in name else name.split()[0]
RECURSIVE UpTo(_, _)
UpTo(s, stops) ==
    IF s = <<>> \/ Head(s) \in stops THEN <<>> ELSE <<Head(s)>> \o UpTo(Tail(s), stops)
\* name.split()[0] raises IndexError when the name holds no token
FamilyRaises(name) == \A k \in 1..Len(name) : name[k] = " "
Family(name) ==
    IF \E k \in 1..Len(name) : name[k] = ":"
    THEN UpTo(name, {":"})
    ELSE UpTo(LStrip(name), {" "})

Abs(x) == IF x < 0 THEN 0 - x ELSE x

\* ---- the tables: sequences of rows, a generated key is the next free number
HasRow(rows, field, value) == \E k \in 1..Len(rows) : rows[k][field] = value
RowOf(rows, field, value) == rows[CHOOSE k \in 1..Len(rows) : rows[k][field] = value]

\* variant: SET highest_rating = EXCLUDED.highest_rating (last value wins)
Incoming(stored, incoming) == incoming
\* load.py:21  GREATEST(players.highest_rating, EXCLUDED.highest_rating)
Greatest(stored, incoming) == IF stored >= incoming THEN stored ELSE incoming

\* variant: no ON CONFLICT clause and no uniqueness constraint on username
InsertPlayerAlways(rows, username, rating) ==
    Append(rows, [player_id |-> Len(rows) + 1, username |-> username,
                  highest_rating |-> rating])
\* variant: ON CONFLICT(username) DO NOTHING (the stored rating is kept)
UpsertPlayerDoNothing(rows, username, rating) ==
    IF HasRow(rows, "username", username) THEN rows
    ELSE Append(rows, [player_id |-> Len(rows) + 1, username |-> username,
                       highest_rating |-> rating])
\* load.py:16-25  INSERT INTO players ... ON CONFLICT(username) DO UPDATE
upsert_player_rows(rows, username, rating) ==
    IF HasRow(rows, "username", username)
    THEN [k \in 1..Len(rows) |->
            IF rows[k].username = username
            THEN [rows[k] EXCEPT !.highest_rating = Greatest(@, rating)]
            ELSE rows[k]]
    ELSE Append(rows, [player_id |-> Len(rows) + 1, username |-> username,
                       highest_rating |-> rating])

\* variant: the key a new row would get, also when the username is stored
FreshPlayerId(rows, username) == Len(rows) + 1
\* load.py:22,26  RETURNING player_id; cur.fetchone()[0]
returning_player_id(rows, username) == RowOf(rows, "username", username).player_id

\* variant: ON CONFLICT (eco) DO UPDATE SET name, family (family recomputed)
UpsertOpeningRecomputes(rows, eco, name, family) ==
    IF HasRow(rows, "eco", eco)
    THEN [k \in 1..Len(rows) |->
            IF rows[k].eco = eco
            THEN [rows[k] EXCEPT !.name = name, !.family = family]
            ELSE rows[k]]
    ELSE Append(rows, [opening_id |-> Len(rows) + 1, eco |-> eco, name |-> name,
                       family |-> family])
\* load.py:31-39  INSERT INTO openings ... ON CONFLICT (eco) DO UPDATE SET name
upsert_opening_rows(rows, eco, name, family) ==
    IF HasRow(rows, "eco", eco)
    THEN [k \in 1..Len(rows) |->
            IF rows[k].eco = eco THEN [rows[k] EXCEPT !.name = name] ELSE rows[k]]
    ELSE Append(rows, [opening_id |-> Len(rows) + 1, eco |-> eco, name |-> name,
                       family |-> family])

\* load.py:36,40  RETURNING opening_id; cur.fetchone()[0]
returning_opening_id(rows, eco) == RowOf(rows, "eco", eco).opening_id

\* variant: ON CONFLICT (game_id) DO UPDATE (the stored row is overwritten)
InsertOrReplace(rows, row) ==
    IF HasRow(rows, "game_id", row.game_id)
    THEN [k \in 1..Len(rows) |-> IF rows[k].game_id = row.game_id THEN row ELSE rows[k]]
    ELSE Append(rows, row)
\* variant: no uniqueness constraint on game_id
InsertAlways(rows, row) == Append(rows, row)
\* load.py:44-56  INSERT INTO games ... ON CONFLICT (game_id) DO NOTHING
insert_game_rows(rows, row) ==
    IF HasRow(rows, "game_id", row.game_id) THEN rows ELSE Append(rows, row)

\* variant: rating_diff is 0 when a side has no rating
GameDictNoDiffWhenUnrated(h, n, wid, bid, wr, br, oid) ==
    [game_id |-> LastSegment(Get(h, "Site", <<>>)),
     played_at |-> <<Get(h, "UTCDate", "1970.01.01"), " ", Get(h, "UTCTime", "00:00:00")>>,
     white_id |-> wid,
     black_id |-> bid,
     white_rating |-> wr,
     black_rating |-> br,
     winner |-> Winner(Get(h, "Result", S_star)),
     termination |-> Get(h, "Termination", "?"),
     ply_count |-> n,
     opening_id |-> oid,
     rating_diff |-> IF wr = 0 \/ br = 0 THEN 0 ELSE Abs(wr - br)]
\* load.py:80-92  game_dict
game_dict(h, n, wid, bid, wr, br, oid) ==
    [game_id |-> LastSegment(Get(h, "Site", <<>>)),
     played_at |-> <<Get(h, "UTCDate", "1970.01.01"), " ", Get(h, "UTCTime", "00:00:00")>>,
     white_id |-> wid,
     black_id |-> bid,
     white_rating |-> wr,
     black_rating |-> br,
     winner |-> Winner(Get(h, "Result", S_star)),
     termination |-> Get(h, "Termination", "?"),
     ply_count |-> n,
     opening_id |-> oid,
     rating_diff |-> Abs(wr - br)]

\* ---- record stores of the model
SiteA == <<"l", "/", "a">>
SiteB == <<"l", "/", "b">>
SiteSlash == <<"l", "/">>
Najdorf == <<"S", " ", "D", ":", " ", "N">>
Dragon == <<"S", " ", "D", ":", " ", "D">>
English == <<"E", " ", "O">>

RecA == [headers |-> [Site |-> SiteA, White |-> "alice", Black |-> "bob",
                      WhiteElo |-> <<"1", "2">>, BlackElo |-> <<"9">>,
                      Result |-> R_1_0, ECO |-> "B90", Opening |-> Najdorf,
                      UTCDate |-> "2021.03.04", UTCTime |-> "10:00:00",
                      Termination |-> "Normal"],
         ply |-> 4]
\* the external game ID of RecA with every other header different
RecA2 == [headers |-> [Site |-> SiteA, White |-> "bob", Black |-> "alice",
                       WhiteElo |-> <<"1", "5">>, BlackElo |-> <<"7">>,
                       Result |-> R_0_1, ECO |-> "A10", Opening |-> English,
                       UTCDate |-> "2022.05.06", UTCTime |-> "11:00:00",
                       Termination |-> "Time forfeit"],
          ply |-> 6]
\* an unrated side: lichess writes "?" for its rating
RecB == [headers |-> [Site |-> SiteB, White |-> "carol", Black |-> "alice",
                      WhiteElo |-> <<"?">>, BlackElo |-> <<"2", "0">>,
                      Result |-> R_half, ECO |-> "B90", Opening |-> Dragon,
                      UTCDate |-> "2021.03.04", UTCTime |-> "10:00:00",
                      Termination |-> "Normal"],
         ply |-> 2]
\* a Site that ends with "/", the ECO of RecA under a name of another family;
\* no Black, no BlackElo, no date, time or termination
RecC == [headers |-> [Site |-> SiteSlash, White |-> "bob", WhiteElo |-> <<"2", "0">>,
                      Result |-> R_half, ECO |-> "B90", Opening |-> English],
         ply |-> 0]
\* no header at all
RecD == [headers |-> <<>>, ply |-> 0]

Records == {RecA, RecA2, RecB, RecC, RecD}
Files == SeqsUpTo(Records, MaxRecords)

NoTables == [players |-> <<>>, openings |-> <<>>, games |-> <<>>, upserted |-> {}]
Tables == [players |-> players, openings |-> openings, games |-> games,
           upserted |-> upserted]

LoaderIdle ==
    /\ players = <<>> /\ openings = <<>> /\ games = <<>> /\ upserted = {}
    /\ file = <<>> /\ idx = 0 /\ lpc = "idle" /\ headers = <<>> /\ ply = 0
    /\ opening_id = 0 /\ white_rating = 0 /\ black_rating = 0
    /\ white_id = 0 /\ black_id = 0 /\ game_ct = 0 /\ printed = <<>> /\ loads = 0
    /\ saved = NoTables /\ reload = FALSE

\* an error propagates out of process_pgn through the scope of get_conn, which
\* commits or rolls back what the run has done
Raise ==
    /\ lpc' = "raised"
    /\ players' = IF commitOnError THEN players ELSE saved.players
    /\ openings' = IF commitOnError THEN openings ELSE saved.openings
    /\ games' = IF commitOnError THEN games ELSE saved.games
    /\ upserted' = IF commitOnError THEN upserted ELSE saved.upserted

\* load.py:59-62  entry: connection, cursor and file are opened
process_pgn ==
    /\ lpc \in {"idle", "done", "raised"}
    /\ loads < MaxLoads
    /\ loads' = loads + 1
    /\ \E f \in Files :
          /\ file' = f
          /\ reload' = (loads > 0 /\ f = file)
    /\ idx' = 0
    /\ game_ct' = 0
    /\ printed' = <<>>
    /\ saved' = Tables
    /\ lpc' = "read_game"
    /\ UNCHANGED <<tableVars, headers, ply, opening_id, white_rating, black_rating,
                   white_id, black_id, commitOnError>>
    /\ UNCHANGED <<collectorVars, pureVars>>

\* load.py:64,67  chess.pgn.read_game(handle) returns the next record
read_game ==
    /\ lpc = "read_game"
    /\ idx < Len(file)
    /\ idx' = idx + 1
    /\ headers' = file[idx + 1].headers
    /\ ply' = file[idx + 1].ply
    /\ lpc' = "upsert_opening"
    /\ UNCHANGED <<tableVars, file, opening_id, white_rating, black_rating, white_id,
                   black_id, game_ct, printed, loads, saved,
                   reload, commitOnError>>
    /\ UNCHANGED <<collectorVars, pureVars>>

\* load.py:65-66,97  read_game returns None: the loop ends, the scopes are left
end_of_stream ==
    /\ lpc = "read_game"
    /\ idx = Len(file)
    /\ printed' = Append(printed, <<"Finished. Total games processed:", game_ct>>)
    /\ lpc' = "done"
    /\ UNCHANGED <<tableVars, file, idx, localVars, loads, saved, reload, commitOnError>>
    /\ UNCHANGED <<collectorVars, pureVars>>

\* load.py:68-70  upsert_opening(cur, eco, opening_name)
upsert_opening ==
    /\ lpc = "upsert_opening"
    /\ LET eco == Get(headers, "ECO", "?")
           opening_name == Get(headers, "Opening", <<"U", "n", "k", "n", "o", "w", "n">>)
       IN  IF FamilyRaises(opening_name)
           THEN Raise /\ UNCHANGED opening_id
           ELSE /\ openings' = upsert_opening_rows(openings, eco, opening_name,
                                                   Family(opening_name))
                /\ opening_id' = returning_opening_id(openings', eco)
                /\ lpc' = "white_rating"
                /\ UNCHANGED <<players, games, upserted>>
    /\ UNCHANGED <<file, idx, headers, ply, white_rating, black_rating, white_id,
                   black_id, game_ct, printed, loads, saved,
                   reload, commitOnError>>
    /\ UNCHANGED <<collectorVars, pureVars>>

\* load.py:72,74  white_rating = int(headers.get("WhiteElo", 0))
parse_white_rating ==
    /\ lpc = "white_rating"
    /\ IF EloParses(headers, "WhiteElo")
       THEN /\ white_rating' = EloValue(headers, "WhiteElo")
            /\ lpc' = "black_rating"
            /\ UNCHANGED tableVars
       ELSE Raise /\ UNCHANGED white_rating
    /\ UNCHANGED <<file, idx, headers, ply, opening_id, black_rating, white_id,
                   black_id, game_ct, printed, loads, saved,
                   reload, commitOnError>>
    /\ UNCHANGED <<collectorVars, pureVars>>

\* load.py:73,75  black_rating = int(headers.get("BlackElo", 0))
parse_black_rating ==
    /\ lpc = "black_rating"
    /\ IF EloParses(headers, "BlackElo")
       THEN /\ black_rating' = EloValue(headers, "BlackElo")
            /\ lpc' = "upsert_white"
            /\ UNCHANGED tableVars
       ELSE Raise /\ UNCHANGED black_rating
    /\ UNCHANGED <<file, idx, headers, ply, opening_id, white_rating, white_id,
                   black_id, game_ct, printed, loads, saved,
                   reload, commitOnError>>
    /\ UNCHANGED <<collectorVars, pureVars>>

\* load.py:77  white_id = upsert_player(cur, white_username, white_rating)
upsert_white ==
    /\ lpc = "upsert_white"
    /\ LET white_username == Get(headers, "White", "?")
       IN  /\ players' = upsert_player_rows(players, white_username, white_rating)
           /\ upserted' = upserted \cup {<<white_username, white_rating>>}
           /\ white_id' = returning_player_id(players', white_username)
    /\ lpc' = "upsert_black"
    /\ UNCHANGED <<openings, games, file, idx, headers, ply, opening_id, white_rating,
                   black_rating, black_id, game_ct, printed, loads, saved,
                   reload, commitOnError>>
    /\ UNCHANGED <<collectorVars, pureVars>>

\* load.py:78  black_id = upsert_player(cur, black_username, black_rating)
upsert_black ==
    /\ lpc = "upsert_black"
    /\ LET black_username == Get(headers, "Black", "?")
       IN  /\ players' = upsert_player_rows(players, black_username, black_rating)
           /\ upserted' = upserted \cup {<<black_username, black_rating>>}
           /\ black_id' = returning_player_id(players', black_username)
    /\ lpc' = "insert_game"
    /\ UNCHANGED <<openings, games, file, idx, headers, ply, opening_id, white_rating,
                   black_rating, white_id, game_ct, printed, loads, saved,
                   reload, commitOnError>>
    /\ UNCHANGED <<collectorVars, pureVars>>

\* load.py:80-93  insert_game(cur, game_dict)
insert_game ==
    /\ lpc = "insert_game"
    /\ games' = insert_game_rows(games, game_dict(headers, ply, white_id, black_id,
                                                  white_rating, black_rating, opening_id))
    /\ lpc' = "count"
    /\ UNCHANGED <<players, openings, upserted, file, idx, localVars, printed, loads,
                   saved, reload, commitOnError>>
    /\ UNCHANGED <<collectorVars, pureVars>>

\* load.py:95  a progress line every 1000 games
ProgressEvery == 1000

\* load.py:94-96  game_ct += 1, progress line
count_game ==
    /\ lpc = "count"
    /\ game_ct' = game_ct + 1
    /\ printed' = IF game_ct' % ProgressEvery = 0
                  THEN Append(printed, <<"Inserted", game_ct'>>)
                  ELSE printed
    /\ lpc' = "read_game"
    /\ UNCHANGED <<tableVars, file, idx, headers, ply, opening_id, white_rating,
                   black_rating, white_id, black_id, loads, saved, reload, commitOnError>>
    /\ UNCHANGED <<collectorVars, pureVars>>

\* ============================================================ pure functions
ResultChars == {"0", "1", "2", "-", "/"}
Results == SeqsUpTo(ResultChars, MaxResultLen) \cup {R_half, S_star}

PureIdle == input = <<>> /\ output = <<>>

\* load.py:87  the winner expression applied to a Result header
map_result ==
    /\ output = <<>>
    /\ output' = <<Winner(input)>>
    /\ UNCHANGED input
    /\ UNCHANGED <<collectorVars, loaderVars>>

NameChars == {"a", "b", " ", ":"}
SicilianNajdorf == <<"S", "i", "c", "i", "l", "i", "a", "n", " ", "D", "e", "f", "e",
                     "n", "s", "e", ":", " ", "N", "a", "j", "d", "o", "r", "f">>
EnglishOpening == <<"E", "n", "g", "l", "i", "s", "h", " ", "O", "p", "e", "n", "i",
                    "n", "g">>
Names == SeqsUpTo(NameChars, MaxNameLen) \cup {SicilianNajdorf, EnglishOpening}

\* load.py:30  the family expression applied to an Opening header: a family,
\* or the IndexError of name.split()[0]
derive_family ==
    /\ output = <<>>
    /\ output' = IF FamilyRaises(input)
                 THEN <<"IndexError">>
                 ELSE <<"family", Family(input)>>
    /\ UNCHANGED input
    /\ UNCHANGED <<collectorVars, loaderVars>>

\* ============================================================ specifications
CollectorNext ==
    \/ export_games
    \/ open_out
    \/ for_username
    \/ for_exhausted
    \/ request_returns
    \/ request_response_error
    \/ request_other_error
    \/ stream_line
    \/ stream_end
    \/ stream_error

LoaderNext ==
    \/ process_pgn
    \/ read_game
    \/ end_of_stream
    \/ upsert_opening
    \/ parse_white_rating
    \/ parse_black_rating
    \/ upsert_white
    \/ upsert_black
    \/ insert_game
    \/ count_game

\* the Collector alone
CollectorInit == CollectorIdle /\ LoaderIdle /\ commitOnError = FALSE /\ PureIdle
SpecCollector == CollectorInit /\ [][CollectorNext]_vars

\* the Loader alone
Init == CollectorIdle /\ LoaderIdle /\ commitOnError \in BOOLEAN /\ PureIdle
Next == LoaderNext
Spec == Init /\ [][Next]_vars

\* the winner expression alone, on every Result of the bounded set
WinnerInit == CollectorIdle /\ LoaderIdle /\ commitOnError = FALSE
              /\ input \in Results /\ output = <<>>
WinnerNext == map_result
SpecWinner == WinnerInit /\ [][WinnerNext]_vars

\* the family expression alone, on every Opening name of the bounded set
FamilyInit == CollectorIdle /\ LoaderIdle /\ commitOnError = FALSE
              /\ input \in Names /\ output = <<>>
FamilyNext == derive_family
SpecFamily == FamilyInit /\ [][FamilyNext]_vars

\* =================================================================== claims
Max(S) == CHOOSE m \in S : \A x \in S : x <= m

\* ---- C1: a fetch failure for one entity (at the request or while the
\* stream is consumed) never aborts the run: export_games returns normally
\* and has then attempted every entity of the input list.
C1_FetchFailureIsIsolated ==
    /\ cpc # "raised"
    /\ cpc = "done" => requests = usernames

\* ---- C2: loading the same record store twice creates no duplicate Game
\* row: no two rows of games share a game_id, and when a run has loaded the
\* file the previous run loaded, games holds as many rows as before that run.
C2_ReloadAddsNoGame ==
    /\ \A j, k \in 1..Len(games) : games[j].game_id = games[k].game_id => j = k
    /\ (reload /\ lpc \in {"done", "raised"}) => Len(games) = Len(saved.games)

C2_Witness ==
    /\ reload /\ lpc = "done" /\ Len(file) = 2 /\ Len(games) = 2
    /\ game_ct = 2

\* ---- C3: the stored highest_rating of every username is the maximum of the
\* ratings that username was upserted with (as white or black, in any run and
\* any order), and no call of upsert_player lowers a stored highest_rating.
RatingsOf(username) == {p[2] : p \in {q \in upserted : q[1] = username}}

C3_HighestIsMax ==
    \A k \in 1..Len(players) :
        /\ RatingsOf(players[k].username) # {}
        /\ players[k].highest_rating = Max(RatingsOf(players[k].username))

C3_UpsertNeverLowers ==
    lpc \in {"upsert_white", "upsert_black"} =>
        \A k \in 1..Len(players) :
            /\ k <= Len(players')
            /\ players'[k].username = players[k].username
            /\ players'[k].highest_rating >= players[k].highest_rating

C3_HighestRatingIsGreatestOf == []C3_HighestIsMax /\ [][C3_UpsertNeverLowers]_vars

\* a player was just upserted as white with a rating below the stored one
C3_Witness ==
    /\ lpc = "upsert_black"
    /\ HasRow(players, "username", Get(headers, "White", "?"))
    /\ RowOf(players, "username", Get(headers, "White", "?")).highest_rating > white_rating
    /\ loads = 2

\* ---- C4: in every state of a load, the white_id, black_id and opening_id of
\* every Game row name rows that exist in players and openings, and when the
\* Game insert of a record is about to be issued the three identifiers it will
\* use are those of the rows of this record's players and opening.
C4_ReferencesExist ==
    /\ \A k \in 1..Len(games) :
          /\ HasRow(players, "player_id", games[k].white_id)
          /\ HasRow(players, "player_id", games[k].black_id)
          /\ HasRow(openings, "opening_id", games[k].opening_id)
    /\ lpc = "insert_game" =>
          /\ HasRow(players, "username", Get(headers, "White", "?"))
          /\ RowOf(players, "username", Get(headers, "White", "?")).player_id = white_id
          /\ HasRow(players, "username", Get(headers, "Black", "?"))
          /\ RowOf(players, "username", Get(headers, "Black", "?")).player_id = black_id
          /\ HasRow(openings, "eco", Get(headers, "ECO", "?"))
          /\ RowOf(openings, "eco", Get(headers, "ECO", "?")).opening_id = opening_id

\* the Game row of the current record was just inserted, one of its players
\* already known from the record of the earlier Game row
C4_Witness ==
    /\ lpc = "count"
    /\ Len(games) = 2
    /\ games[2].game_id = LastSegment(Get(headers, "Site", <<>>))
    /\ games[2].white_id # games[2].black_id
    /\ games[2].black_id = games[1].white_id

\* ---- C5: a Game row is never changed once inserted: the Game insert of a
\* record leaves every row that games already holds as it is, also when the
\* record carries the game_id of a stored row with other header values.
C5_InsertLeavesRows ==
    lpc = "insert_game" =>
        /\ Len(games') >= Len(games)
        /\ \A k \in 1..Len(games) : games'[k] = games[k]

C5_GameRowImmutable == [][C5_InsertLeavesRows]_vars

\* the record just loaded carries a stored game_id and differs from the row
C5_Witness ==
    /\ lpc = "count"
    /\ \E k \in 1..Len(games) :
          /\ games[k].game_id = LastSegment(Get(headers, "Site", <<>>))
          /\ games[k].winner # Winner(Get(headers, "Result", S_star))
          /\ games[k].white_id # white_id
          /\ games[k].white_rating # white_rating
          /\ games[k].ply_count # ply

\* ---- C6: the rating used for a side is the integer value of its Elo header
\* and 0 when the header is absent or not parsable as an integer, and an
\* unparsable rating raises no error out of process_pgn.
RatingOrZero(h, key) ==
    IF key \in DOMAIN h /\ IsIntLiteral(h[key]) THEN IntOf(h[key]) ELSE 0

C6_UnparsableRatingIsZero ==
    /\ lpc = "raised" =>
          /\ "WhiteElo" \in DOMAIN headers => IsIntLiteral(headers.WhiteElo)
          /\ "BlackElo" \in DOMAIN headers => IsIntLiteral(headers.BlackElo)
    /\ lpc \in {"black_rating", "upsert_white", "upsert_black", "insert_game", "count"} =>
          white_rating = RatingOrZero(headers, "WhiteElo")
    /\ lpc \in {"upsert_white", "upsert_black", "insert_game", "count"} =>
          black_rating = RatingOrZero(headers, "BlackElo")

\* ---- C7: the winner is "white" for the Result "1-0", "black" for "0-1",
\* "draw" for "1/2-1/2", and the Result itself for every other string.
ThreeWayMap(result) ==
    CASE result = R_1_0 -> S_white
      [] result = R_0_1 -> S_black
      [] result = R_half -> S_draw
      [] OTHER -> result

C7_WinnerIsThreeWayMap == output # <<>> => output[1] = ThreeWayMap(input)

\* ---- C8: a run of export_games keeps the lines the store held before the
\* run and adds its own after them.
C8_StoreIsAppendOnly ==
    cpc \in {"for", "request", "stream", "done", "raised"} => IsPrefix(storeBefore, store)

\* ---- C9: when a run of export_games has ended past the credential check,
\* one request was made for each username of the input list, in input order,
\* and the lines the run wrote are the lines the streams delivered, in order.
\* (The file is empty when the loop starts, so its lines are the run's lines.)
C9_OneFetchEachInOrder ==
    cpc \in {"done", "raised"} => (requests = usernames /\ store = delivered)

\* ---- C10: with the credential absent or empty, export_games ends in the
\* configuration error with no request made and the destination untouched.
C10_MissingCredentialFailsFirst ==
    (cpc # "idle" /\ token \in {None, ""}) =>
        (cpc = "config_error" /\ requests = <<>> /\ store = storeBefore)

\* the credential is empty and the destination holds lines of an earlier run
C10_Witness ==
    /\ cpc = "config_error" /\ token = "" /\ usernames # <<>> /\ store # <<>>

\* ---- C11: after one load of a record store into an empty database there is
\* one Opening row per distinct ECO code of the store, one Player row per
\* distinct username (white or black) and one Game row per distinct game_id;
\* a second load of the same store adds no row to any table.
EcosOf(f) == {Get(f[k].headers, "ECO", "?") : k \in 1..Len(f)}
UsernamesOf(f) == {Get(f[k].headers, "White", "?") : k \in 1..Len(f)}
                  \cup {Get(f[k].headers, "Black", "?") : k \in 1..Len(f)}
GameIdsOf(f) == {LastSegment(Get(f[k].headers, "Site", <<>>)) : k \in 1..Len(f)}

C11_OneRowPerKey ==
    /\ (loads = 1 /\ lpc \in {"done", "raised"}) =>
          /\ Len(openings) = Cardinality(EcosOf(file))
          /\ Len(players) = Cardinality(UsernamesOf(file))
          /\ Len(games) = Cardinality(GameIdsOf(file))
    /\ (reload /\ lpc \in {"done", "raised"}) =>
          /\ Len(openings) = Len(saved.openings)
          /\ Len(players) = Len(saved.players)
          /\ Len(games) = Len(saved.games)

\* ---- C12: each completed upsert_opening call stores the name it was passed
\* for its ECO code; it stores the family of that name when the ECO code is
\* new and leaves the stored family as it is when the ECO code is known; it
\* leaves the rows of other ECO codes alone. (So the name is that of the most
\* recent call and the family that of the first.)
C12_UpsertOpeningStep ==
    (lpc = "upsert_opening" /\ lpc' = "white_rating") =>
        LET eco == Get(headers, "ECO", "?")
            name == Get(headers, "Opening", <<"U", "n", "k", "n", "o", "w", "n">>)
        IN  /\ HasRow(openings', "eco", eco)
            /\ RowOf(openings', "eco", eco).name = name
            /\ RowOf(openings', "eco", eco).family =
                  IF HasRow(openings, "eco", eco)
                  THEN RowOf(openings, "eco", eco).family
                  ELSE Family(name)
            /\ \A k \in 1..Len(openings) :
                  openings[k].eco # eco => openings'[k] = openings[k]

\* the same over the calls of one whole load into an empty database: the
\* name is that of the last record of the ECO code, the family that of the first
OpeningNameOf(rec) == Get(rec.headers, "Opening", <<"U", "n", "k", "n", "o", "w", "n">>)
Min(S) == CHOOSE m \in S : \A x \in S : m <= x

C12_FirstLoad ==
    (loads = 1 /\ lpc = "done") =>
        \A k \in 1..Len(openings) :
            LET calls == {j \in 1..Len(file) :
                            Get(file[j].headers, "ECO", "?") = openings[k].eco}
            IN  /\ calls # {}
                /\ openings[k].name = OpeningNameOf(file[Max(calls)])
                /\ openings[k].family = Family(OpeningNameOf(file[Min(calls)]))

C12_NameLatestFamilyFirst == []C12_FirstLoad /\ [][C12_UpsertOpeningStep]_vars

\* an ECO code stored under a name of one family was upserted again with a
\* name of another family
C12_Witness ==
    /\ lpc = "white_rating"
    /\ HasRow(openings, "eco", "B90")
    /\ RowOf(openings, "eco", "B90").name = English
    /\ RowOf(openings, "eco", "B90").family = <<"S", " ", "D">>

\* ---- C13: for every Opening name the family expression yields a family:
\* the text before the first colon when the name has a colon, and otherwise
\* the first blank-delimited token of the name.
BeforeFirstColon(name) ==
    SubSeq(name, 1, Min({j \in 1..Len(name) : name[j] = ":"}) - 1)
FirstToken(name) ==
    LET solid == {j \in 1..Len(name) : name[j] # " "}
        first == Min(solid)
        stop == Min({j \in first..Len(name) : name[j] = " "} \cup {Len(name) + 1})
    IN  IF solid = {} THEN <<>> ELSE SubSeq(name, first, stop - 1)
FamilyAsSpecified(name) ==
    IF \E j \in 1..Len(name) : name[j] = ":"
    THEN BeforeFirstColon(name)
    ELSE FirstToken(name)

C13_FamilyForEveryName ==
    output # <<>> => (output[1] = "family" /\ output[2] = FamilyAsSpecified(input))

\* ---- C14: every Game row has rating_diff = |white_rating - black_rating|,
\* which is never negative; a side without an Elo header has the rating 0, so
\* ratings (2200, 2100) give 100 and white 2200 with no black rating gives 2200.
Elo2200 == <<"2", "2", "0", "0">>
Elo2100 == <<"2", "1", "0", "0">>
DiffOf(h) ==
    game_dict(h, 0, 1, 2, EloValue(h, "WhiteElo"), EloValue(h, "BlackElo"), 1).rating_diff

C14_RatingDiffIsAbsolute ==
    /\ \A k \in 1..Len(games) :
          /\ games[k].rating_diff >= 0
          /\ \/ games[k].rating_diff = games[k].white_rating - games[k].black_rating
             \/ games[k].rating_diff = games[k].black_rating - games[k].white_rating
    /\ lpc \in {"insert_game", "count"} =>
          /\ "WhiteElo" \notin DOMAIN headers => white_rating = 0
          /\ "BlackElo" \notin DOMAIN headers => black_rating = 0
    /\ DiffOf([WhiteElo |-> Elo2200, BlackElo |-> Elo2100]) = 100
    /\ DiffOf([WhiteElo |-> Elo2100, BlackElo |-> Elo2200]) = 100
    /\ DiffOf([WhiteElo |-> Elo2200]) = 2200

\* the Game row of a record without BlackElo was just inserted
C14_Witness ==
    /\ lpc = "count"
    /\ "BlackElo" \notin DOMAIN headers
    /\ white_rating > 0
    /\ Len(games) > 0
    /\ games[Len(games)].game_id = LastSegment(Get(headers, "Site", <<>>))
    /\ games[Len(games)].black_rating = 0
    /\ games[Len(games)].rating_diff = white_rating

\* ---- C15: process_pgn reads every record of the store once, in order, and
\* then ends normally at the end of the stream; the counter is the number of
\* records processed, a progress line is printed for each multiple of 1000 the
\* counter reaches and for nothing else, and the total printed at the end is
\* the number of records of the store.
ProgressLines(n) == [k \in 1..(n \div ProgressEvery) |-> <<"Inserted", k * ProgressEvery>>]

C15_CountsEveryRecordThenEnds ==
    /\ lpc = "read_game" => game_ct = idx
    /\ lpc \in {"upsert_opening", "white_rating", "black_rating", "upsert_white",
                "upsert_black", "insert_game", "count"} =>
          (game_ct = idx - 1 /\ headers = file[idx].headers)
    /\ lpc \notin {"idle", "done", "raised"} => printed = ProgressLines(game_ct)
    /\ lpc \in {"done", "raised"} =>
          /\ lpc = "done"
          /\ idx = Len(file)
          /\ game_ct = Len(file)
          /\ printed = Append(ProgressLines(game_ct),
                              <<"Finished. Total games processed:", Len(file)>>)

\* ---- C16: when a run has loaded the store the previous run loaded, every
\* row of players, openings and games, with every attribute, is as it was
\* before the run (loading twice in a row gives the state of loading once).
C16_ReloadChangesNothing ==
    (reload /\ lpc \in {"done", "raised"}) =>
        /\ players = saved.players
        /\ openings = saved.openings
        /\ games = saved.games

\* a store that upserts one ECO code under two names and one player with two
\* ratings has been loaded twice
C16_Witness ==
    /\ reload /\ lpc = "done" /\ file = <<RecA, RecC>>
    /\ Len(games) = 2 /\ Len(players) = 3
    /\ RowOf(openings, "eco", "B90").name = English
    /\ RowOf(players, "username", "bob").highest_rating = 20

\* ---- C17: when the record being loaded carries a game_id that games already
\* holds, its Opening upsert and both Player upserts have been applied when
\* the Game insert is issued (the rows exist, the opening has the record's
\* name, each player's highest_rating is at least the record's rating), and
\* the Game insert then changes no table.
CurrentGameId == LastSegment(Get(headers, "Site", <<>>))

C17_UpsertsApplied ==
    (lpc = "insert_game" /\ HasRow(games, "game_id", CurrentGameId)) =>
        /\ HasRow(openings, "eco", Get(headers, "ECO", "?"))
        /\ RowOf(openings, "eco", Get(headers, "ECO", "?")).name = OpeningNameOf([headers |-> headers])
        /\ HasRow(players, "username", Get(headers, "White", "?"))
        /\ RowOf(players, "username", Get(headers, "White", "?")).highest_rating >= white_rating
        /\ HasRow(players, "username", Get(headers, "Black", "?"))
        /\ RowOf(players, "username", Get(headers, "Black", "?")).highest_rating >= black_rating

C17_InsertIgnored ==
    (lpc = "insert_game" /\ HasRow(games, "game_id", CurrentGameId)) =>
        (games' = games /\ players' = players /\ openings' = openings)

C17_KnownGameStillUpserts == []C17_UpsertsApplied /\ [][C17_InsertIgnored]_vars

\* a record whose game_id was stored before this run has been loaded: games is
\* as before the run, players and openings have a new row each
C17_Witness ==
    /\ lpc = "count"
    /\ HasRow(saved.games, "game_id", CurrentGameId)
    /\ games = saved.games
    /\ Len(players) > Len(saved.players)
    /\ Len(openings) > Len(saved.openings)

\* a record whose game_id is stored has raised a player's highest_rating
C17_RatingRaised ==
    /\ lpc = "count"
    /\ HasRow(saved.games, "game_id", CurrentGameId)
    /\ games = saved.games
    /\ HasRow(saved.players, "username", Get(headers, "White", "?"))
    /\ RowOf(saved.players, "username", Get(headers, "White", "?")).highest_rating < white_rating
    /\ RowOf(players, "username", Get(headers, "White", "?")).highest_rating = white_rating

\* ---- C18: the game_id of a record is the text after the last "/" of its
\* Site header, the empty text when Site is absent or ends with "/"; games
\* holds at most one row with the empty game_id, and the Game insert of a
\* record with the empty game_id changes nothing once such a row is stored.
SiteOf(h) == Get(h, "Site", <<>>)
IdOf(h) == game_dict(h, 0, 1, 2, 0, 0, 1).game_id
IsTextAfterLastSlash(id, site) ==
    /\ Len(id) <= Len(site)
    /\ SubSeq(site, Len(site) - Len(id) + 1, Len(site)) = id
    /\ \A j \in 1..Len(id) : id[j] # "/"
    /\ (Len(id) = Len(site) \/ site[Len(site) - Len(id)] = "/")

C18_GameIdOfSite ==
    /\ \A rec \in Records :
          /\ IsTextAfterLastSlash(IdOf(rec.headers), SiteOf(rec.headers))
          /\ ("Site" \notin DOMAIN rec.headers
              \/ (SiteOf(rec.headers) # <<>>
                  /\ SiteOf(rec.headers)[Len(SiteOf(rec.headers))] = "/"))
                => IdOf(rec.headers) = <<>>
    /\ IdOf([Site |-> <<"a", "/", "b", "/", "c">>]) = <<"c">>
    /\ IdOf([Site |-> <<"a", "b">>]) = <<"a", "b">>
    /\ \A j, k \in 1..Len(games) :
          (games[j].game_id = <<>> /\ games[k].game_id = <<>>) => j = k

C18_LaterEmptyIdIgnored ==
    (lpc = "insert_game" /\ IdOf(headers) = <<>> /\ HasRow(games, "game_id", <<>>)) =>
        games' = games

C18_EmptyGameIdStoredOnce == []C18_GameIdOfSite /\ [][C18_LaterEmptyIdIgnored]_vars

\* a record whose Site ends with "/" was loaded after a record without Site:
\* the row of the first is the one stored
C18_Witness ==
    /\ lpc = "count"
    /\ "Site" \in DOMAIN headers
    /\ headers.Site = SiteSlash
    /\ HasRow(games, "game_id", <<>>)
    /\ RowOf(games, "game_id", <<>>).white_id # white_id
    /\ RowOf(games, "game_id", <<>>).white_rating = 0

====
